---- MODULE Spec2Model ----
(***************************************************************************)
(* Belgian national number (NN, NISS): compact / format / validate of     *)
(* src/be/nn.ts.  Strings are sequences of one-character strings.  An     *)
(* instant is [day, ms]: whole days since 1970-01-01 UTC and the          *)
(* milliseconds within that day, which is exactly the millisecond count   *)
(* of a JS Date without leaving the range of TLC's integers.  A JS number *)
(* that may exceed 2^31 (the 11-digit value, the 10-digit checksum basis) *)
(* is [hi, lo] with value hi * LIMB + lo; JS keeps such values exact.     *)
(***************************************************************************)
EXTENDS Integers, Sequences, FiniteSets, TLC

\* input: the argument of the calls; now: the wall clock (Date.now());
\* ticks: how often the clock has advanced; op: the last operation called;
\* at: the clock reading of that call; ret: what it returned or threw;
\* checked: the checks validate evaluated, in order; csb: the checksum
\* bases validChecksum computed (empty when it was not called).
VARIABLES input, now, ticks, op, at, ret, checked, csb

vars == <<input, now, ticks, op, at, ret, checked, csb>>

----------------------------------------------------------------------------
(* Characters and numbers *)

Digits == {"0", "1", "2", "3", "4", "5", "6", "7", "8", "9"}

DigitVal(c) ==
  CASE c = "0" -> 0 [] c = "1" -> 1 [] c = "2" -> 2 [] c = "3" -> 3
    [] c = "4" -> 4 [] c = "5" -> 5 [] c = "6" -> 6 [] c = "7" -> 7
    [] c = "8" -> 8 [] c = "9" -> 9

DigitChar(n) ==
  CASE n = 0 -> "0" [] n = 1 -> "1" [] n = 2 -> "2" [] n = 3 -> "3"
    [] n = 4 -> "4" [] n = 5 -> "5" [] n = 6 -> "6" [] n = 7 -> "7"
    [] n = 8 -> "8" [] n = 9 -> "9"

LIMB == 10^6

Num(h, l) == [hi |-> h, lo |-> l]

\* parseInt(s, 10) on a string of decimal digits: most significant digit first.
RECURSIVE ParseIntFrom(_, _)
ParseIntFrom(acc, s) ==
  IF s = <<>> THEN acc
  ELSE LET t == acc.lo * 10 + DigitVal(Head(s))
       IN ParseIntFrom(Num((acc.hi * 10) + (t \div LIMB), t % LIMB), Tail(s))

ParseInt(s) == ParseIntFrom(Num(0, 0), s)

\* The plain integer of a number known to be below 2^31.
IntOf(n) == n.hi * LIMB + n.lo

NumLeqZero(n) == n.hi = 0 /\ n.lo = 0

NumMod(n, m) == (((n.hi % m) * (LIMB % m)) + (n.lo % m)) % m

\* `${yyyy}` for a four-digit year.
YearToString(y) ==
  << DigitChar((y \div 1000) % 10), DigitChar((y \div 100) % 10),
     DigitChar((y \div 10) % 10), DigitChar(y % 10) >>

----------------------------------------------------------------------------
(* Collaborators from ../util (strings.cleanUnicode, strings.isdigits,     *)
(* isValidDateCompactYYYYMMDD) and the JS Date built-in                    *)

DeleteChars == {" ", "-", "."}

\* A character the cleaning utility rejects.
BadChar == "<bad>"

RECURSIVE CleanValue(_)
CleanValue(s) ==
  IF s = <<>> \/ Head(s) = BadChar THEN <<>>
  ELSE IF Head(s) \in DeleteChars THEN CleanValue(Tail(s))
  ELSE <<Head(s)>> \o CleanValue(Tail(s))

CleanUnicode(s) ==
  [value |-> CleanValue(s), err |-> \E i \in 1..Len(s) : s[i] = BadChar]

IsDigits(s) == Len(s) > 0 /\ \A i \in 1..Len(s) : s[i] \in Digits

IsLeapYear(y) == y % 4 = 0 /\ (y % 100 # 0 \/ y % 400 = 0)

DaysInMonth(y, m) ==
  IF m = 2 THEN (IF IsLeapYear(y) THEN 29 ELSE 28)
  ELSE IF m \in {4, 6, 9, 11} THEN 30 ELSE 31

IsValidDateCompactYYYYMMDD(s) ==
  LET y == IntOf(ParseInt(SubSeq(s, 1, 4)))
      m == IntOf(ParseInt(SubSeq(s, 5, 6)))
      d == IntOf(ParseInt(SubSeq(s, 7, 8)))
  IN  /\ Len(s) = 8 /\ IsDigits(s)
      /\ m \in 1..12
      /\ d \in 1..DaysInMonth(y, m)

MS_PER_DAY == 1000 * 60 * 60 * 24

LeapsBefore(y) == ((y - 1) \div 4) - ((y - 1) \div 100) + ((y - 1) \div 400)

RECURSIVE DaysBeforeMonth(_, _)
DaysBeforeMonth(y, m) ==
  IF m = 1 THEN 0 ELSE DaysBeforeMonth(y, m - 1) + DaysInMonth(y, m - 1)

\* Days from 1970-01-01 to y-m-d.
DaysFromCivil(y, m, d) ==
  365 * (y - 1970) + LeapsBefore(y) - LeapsBefore(1970)
    + DaysBeforeMonth(y, m) + d - 1

\* new Date(s) for the two date-only ISO forms the validator builds,
\* "YYYY" and "YYYY-MM-DD": midnight UTC.
DateParse(s) ==
  IF Len(s) = 4
  THEN [day |-> DaysFromCivil(IntOf(ParseInt(s)), 1, 1), ms |-> 0]
  ELSE [day |-> DaysFromCivil(IntOf(ParseInt(SubSeq(s, 1, 4))),
                              IntOf(ParseInt(SubSeq(s, 6, 7))),
                              IntOf(ParseInt(SubSeq(s, 9, 10)))),
        ms |-> 0]

AddMs(t, d) ==
  [day |-> t.day + ((t.ms + d) \div MS_PER_DAY), ms |-> (t.ms + d) % MS_PER_DAY]

InstantLeq(a, b) == a.day < b.day \/ (a.day = b.day /\ a.ms <= b.ms)

----------------------------------------------------------------------------
(* src/be/nn.ts *)

clean(s) == CleanUnicode(s)

NoRet == [kind |-> "none"]
Throw(e) == [kind |-> "throw", error |-> e]
Str(v) == [kind |-> "string", value |-> v]
Failure(e) == [kind |-> "result", isValid |-> FALSE, error |-> e]
\* Faulty variant: the flags of a company number.
Success_Company(number) ==
  [kind |-> "result", isValid |-> TRUE, compact |-> number,
   isIndividual |-> FALSE, isCompany |-> TRUE]

Success(number) ==
  [kind |-> "result", isValid |-> TRUE, compact |-> number,
   isIndividual |-> TRUE, isCompany |-> FALSE]

compact(s) ==
  LET r == clean(s)
  IN  IF r.err THEN Throw("CleaningError") ELSE Str(r.value)

\* Faulty variant: format rethrows the cleaning error as compact does.
format_Throws(s) ==
  LET r == clean(s)
  IN  IF r.err THEN Throw("CleaningError") ELSE Str(r.value)

format(s) == Str(clean(s).value)

toDateArray(number) ==
  << SubSeq(number, 1, 2), SubSeq(number, 3, 4), SubSeq(number, 5, 6) >>

getFirstSix(number) == SubSeq(number, 1, 6)

getBaseNumber(number) == SubSeq(number, 1, 9)

getChecksum(number) == IntOf(ParseInt(SubSeq(number, 10, Len(number))))

getFullYears(yy) ==
  << IntOf(ParseInt(<<"1", "9">> \o yy)), IntOf(ParseInt(<<"2", "0">> \o yy)) >>

ONE_DAY == 1000 * 60 * 60 * 24

getApproximatelyNow(t) == AddMs(t, ONE_DAY)

\* Faulty variant: the cutoff instant itself is no longer in the past.
isInPast_Strict(date, t) ==
  LET d == DateParse(date)
      n == getApproximatelyNow(t)
  IN  InstantLeq(d, n) /\ d # n

\* Faulty variant: the comparison the wrong way round.
isInPast_Reversed(date, t) ==
  InstantLeq(getApproximatelyNow(t), DateParse(date))

isInPast(date, t) == InstantLeq(DateParse(date), getApproximatelyNow(t))

\* Faulty variant: the year 2000 still on the unprefixed basis.
toChecksumBasis_Off(year, baseNumber) ==
  ParseInt(IF year <= 2000 THEN baseNumber ELSE <<"2">> \o baseNumber)

toChecksumBasis(year, baseNumber) ==
  ParseInt(IF year < 2000 THEN baseNumber ELSE <<"2">> \o baseNumber)

\* Faulty variant: the calendar filter left out.
getValidPastDates_NoCalendar(yymmdd, t) ==
  LET da == toDateArray(yymmdd)
      years == getFullYears(da[1])
      dates == [i \in 1..Len(years) |->
                  YearToString(years[i]) \o <<"-">> \o da[2] \o <<"-">> \o da[3]]
  IN  SelectSeq(dates, LAMBDA date : isInPast(date, t))

getValidPastDates(yymmdd, t) ==
  LET da == toDateArray(yymmdd)
      yy == da[1]
      mm == da[2]
      dd == da[3]
      ok == SelectSeq(getFullYears(yy),
              LAMBDA yyyy : IsValidDateCompactYYYYMMDD(YearToString(yyyy) \o mm \o dd))
      dates == [i \in 1..Len(ok) |->
                  YearToString(ok[i]) \o <<"-">> \o mm \o <<"-">> \o dd]
  IN  SelectSeq(dates, LAMBDA date : isInPast(date, t))

\* Faulty variant: a blank day is refused.
isUnknownDob_DayChecked(dob) ==
  LET da == toDateArray(dob)
  IN  IsDigits(da[1]) /\ da[2] = <<"0", "0">> /\ IsDigits(da[3])
        /\ da[3] # <<"0", "0">>

isUnknownDob(dob) ==
  LET da == toDateArray(dob)
  IN  IsDigits(da[1]) /\ da[2] = <<"0", "0">> /\ IsDigits(da[3])

isValidDob(dob, t) == Len(getValidPastDates(dob, t)) # 0

isValidFirstSix(firstSix, t) == isUnknownDob(firstSix) \/ isValidDob(firstSix, t)

validStructure(number, t) == isValidFirstSix(getFirstSix(number), t)

getChecksumBasesUnknownDob(dob, baseNumber, t) ==
  LET yy == toDateArray(dob)[1]
      past == SelectSeq(getFullYears(yy),
                LAMBDA year : isInPast(YearToString(year), t))
  IN  [i \in 1..Len(past) |-> toChecksumBasis(past[i], baseNumber)]

\* date.split('-')[0]
RECURSIVE SplitFirst(_)
SplitFirst(date) ==
  IF date = <<>> \/ Head(date) = "-" THEN <<>>
  ELSE <<Head(date)>> \o SplitFirst(Tail(date))

getChecksumBasesForStandardDob(dob, baseNumber, t) ==
  LET validPastDates == getValidPastDates(dob, t)
      extractYearFromDate(date) == IntOf(ParseInt(SplitFirst(date)))
      validPastYears ==
        [i \in 1..Len(validPastDates) |-> extractYearFromDate(validPastDates[i])]
  IN  [i \in 1..Len(validPastYears) |-> toChecksumBasis(validPastYears[i], baseNumber)]

getChecksumBases(number, t) ==
  LET firstSix == getFirstSix(number)
      baseNumber == getBaseNumber(number)
  IN  IF isUnknownDob(firstSix)
      THEN getChecksumBasesUnknownDob(firstSix, baseNumber, t)
      ELSE getChecksumBasesForStandardDob(firstSix, baseNumber, t)

\* Faulty variant: every basis has to match (Array.every for Array.some).
validChecksum_Every(number, t) ==
  LET checksumBases == getChecksumBases(number, t)
      checksum == getChecksum(number)
  IN  \A i \in 1..Len(checksumBases) :
        NumMod(checksumBases[i], 97) + checksum = 97

validChecksum(number, t) ==
  LET checksumBases == getChecksumBases(number, t)
      checksum == getChecksum(number)
  IN  \E i \in 1..Len(checksumBases) :
        NumMod(checksumBases[i], 97) + checksum = 97

\* One call of validate: what it returns or throws, the checks it evaluated
\* and the bases validChecksum computed on the way.
Run(r, c, b) == [ret |-> r, checked |-> c, bases |-> b]

\* Faulty variant: only a number that is too short is refused for its length.
validateRun_ShortOnly(s, t) ==
  LET c == compact(s)
      number == c.value
  IN  IF c.kind = "throw" THEN Run(c, <<>>, <<>>)
      ELSE IF ~IsDigits(number) \/ NumLeqZero(ParseInt(number))
        THEN Run(Failure("InvalidFormat"), <<"digits">>, <<>>)
      ELSE IF Len(number) < 11
        THEN Run(Failure("InvalidLength"), <<"digits", "length">>, <<>>)
      ELSE IF ~validStructure(number, t)
        THEN Run(Failure("InvalidFormat"),
                 <<"digits", "length", "structure">>, <<>>)
      ELSE IF ~validChecksum(number, t)
        THEN Run(Failure("InvalidChecksum"),
                 <<"digits", "length", "structure", "checksum">>,
                 getChecksumBases(number, t))
      ELSE Run(Success(number),
               <<"digits", "length", "structure", "checksum">>,
               getChecksumBases(number, t))

\* Faulty variant: the length check moved in front of the digits check.
validateRun_LengthFirst(s, t) ==
  LET c == compact(s)
      number == c.value
  IN  IF c.kind = "throw" THEN Run(c, <<>>, <<>>)
      ELSE IF Len(number) # 11
        THEN Run(Failure("InvalidLength"), <<"length">>, <<>>)
      ELSE IF ~IsDigits(number) \/ NumLeqZero(ParseInt(number))
        THEN Run(Failure("InvalidFormat"), <<"length", "digits">>, <<>>)
      ELSE IF ~validStructure(number, t)
        THEN Run(Failure("InvalidFormat"),
                 <<"length", "digits", "structure">>, <<>>)
      ELSE IF ~validChecksum(number, t)
        THEN Run(Failure("InvalidChecksum"),
                 <<"length", "digits", "structure", "checksum">>,
                 getChecksumBases(number, t))
      ELSE Run(Success(number),
               <<"length", "digits", "structure", "checksum">>,
               getChecksumBases(number, t))

validateRun(s, t) ==
  LET c == compact(s)
      number == c.value
  IN  IF c.kind = "throw" THEN Run(c, <<>>, <<>>)
      ELSE IF ~IsDigits(number) \/ NumLeqZero(ParseInt(number))
        THEN Run(Failure("InvalidFormat"), <<"digits">>, <<>>)
      ELSE IF Len(number) # 11
        THEN Run(Failure("InvalidLength"), <<"digits", "length">>, <<>>)
      ELSE IF ~validStructure(number, t)
        THEN Run(Failure("InvalidFormat"),
                 <<"digits", "length", "structure">>, <<>>)
      ELSE IF ~validChecksum(number, t)
        THEN Run(Failure("InvalidChecksum"),
                 <<"digits", "length", "structure", "checksum">>,
                 getChecksumBases(number, t))
      ELSE Run(Success(number),
               <<"digits", "length", "structure", "checksum">>,
               getChecksumBases(number, t))

validate(s, t) == validateRun(s, t).ret

----------------------------------------------------------------------------
(* Inputs and clock *)

MaxTicks == 2

YYs == { <<"0", "0">>, <<"8", "5">>, <<"9", "9">> }
MMs == { <<"0", "0">>, <<"0", "1">>, <<"0", "2">>, <<"1", "3">> }
DDs == { <<"0", "0">>, <<"0", "1">>, <<"2", "9">>, <<"3", "0">> }
Serials == { <<"1", "2", "3">> }

\* Check digits: 00 matches no basis; the others are the check digits
\* of some of the numbers above under the 19yy or the 20yy basis.
CheckDigits ==
  { <<"0", "0">>, <<"2", "0">>, <<"4", "8">>, <<"7", "7">>, <<"7", "1">>,
    <<"0", "3">>, <<"8", "7">>, <<"9", "7">> }

ElevenDigits ==
  { yy \o mm \o dd \o sss \o cc :
      yy \in YYs, mm \in MMs, dd \in DDs, sss \in Serials, cc \in CheckDigits }

\* yy.mm.dd-sss.cc
Pretty(n) ==
  SubSeq(n, 1, 2) \o <<".">> \o SubSeq(n, 3, 4) \o <<".">> \o SubSeq(n, 5, 6)
    \o <<"-">> \o SubSeq(n, 7, 9) \o <<".">> \o SubSeq(n, 10, 11)

Formatted ==
  { Pretty(n) : n \in { e \in ElevenDigits : SubSeq(e, 1, 2) = <<"0", "0">> /\ SubSeq(e, 5, 6) = <<"0", "1">> } }

Malformed ==
  { <<>>,
    <<" ", "-", ".">>,
    <<"0">>,
    <<"0", "0", "0">>,
    <<"7">>,
    <<"A">>,
    <<"1", "2", "A">>,
    <<"0", "0", "0", "0", "0", "0", "0", "0", "0", "0", "0">>,
    <<"0", "0", "0", "0", "3", "0", "0", "0", "0", "0", "0">>,
    <<"8", "5", "0", "1", "0", "1", "1", "2", "3", "8">>,
    <<"8", "5", "0", "1", "0", "1", "1", "2", "3", "8", "7", "0">>,
    <<"8", "5", "0", "1", "0", "1", "1", "2", "3", "8", "A">>,
    <<"8", "5", "A", "1", "0", "1", "1", "2", "3", "8", "7">>,
    <<"8", "5", "0", "0", "A", "1", "1", "2", "3", "8", "7">>,
    <<"8", "5", "0", "1", "0", "1", "-", "1", "2", "3", ".", "A", "7">>,
    <<BadChar>>,
    <<"8", "5", BadChar, "0", "1">>,
    <<"8", "5", ".", "0", "1", ".", "0", "1", "-", "1", "2", "3", ".", "8", "7", BadChar>> }

Inputs == ElevenDigits \cup Formatted \cup Malformed

InitialNows ==
  { [day |-> DaysFromCivil(1999, 12, 30), ms |-> MS_PER_DAY - 1],
    [day |-> DaysFromCivil(2000, 2, 27), ms |-> MS_PER_DAY - 1],
    [day |-> DaysFromCivil(2026, 11, 6), ms |-> MS_PER_DAY \div 2] }

TickSteps == {1, ONE_DAY}

----------------------------------------------------------------------------
(* State machine *)

Init ==
  /\ input \in Inputs
  /\ now \in InitialNows
  /\ ticks = 0
  /\ op = "none"
  /\ at = now
  /\ ret = NoRet
  /\ checked = <<>>
  /\ csb = <<>>

Compact ==
  /\ op' = "compact"
  /\ at' = now
  /\ ret' = compact(input)
  /\ checked' = <<>>
  /\ csb' = <<>>
  /\ UNCHANGED <<input, now, ticks>>

Format ==
  /\ op' = "format"
  /\ at' = now
  /\ ret' = format(input)
  /\ checked' = <<>>
  /\ csb' = <<>>
  /\ UNCHANGED <<input, now, ticks>>

Validate ==
  /\ op' = "validate"
  /\ at' = now
  /\ LET r == validateRun(input, now)
     IN  /\ ret' = r.ret
         /\ checked' = r.checked
         /\ csb' = r.bases
  /\ UNCHANGED <<input, now, ticks>>

\* The wall clock advances between calls.
Tick ==
  /\ ticks < MaxTicks
  /\ \E d \in TickSteps : now' = AddMs(now, d)
  /\ ticks' = ticks + 1
  /\ UNCHANGED <<input, op, at, ret, checked, csb>>

Next == Compact \/ Format \/ Validate \/ Tick

Spec == Init /\ [][Next]_vars

----------------------------------------------------------------------------
(* Vocabulary of the properties *)

Range(q) == { q[i] : i \in 1..Len(q) }

\* The cleaned form of the input and whether cleaning failed.
number == clean(input).value
cleanFailed == clean(input).err

Positive(s) == \E i \in 1..Len(s) : s[i] # "0"

TwoDigits(s, i) == 10 * DigitVal(s[i]) + DigitVal(s[i + 1])

ElevenDigitNumber == ~cleanFailed /\ IsDigits(number) /\ Len(number) = 11

monthBlank == SubSeq(number, 3, 4) = <<"0", "0">>

\* The two century expansions of yy.
Expansions == { 1900 + TwoDigits(number, 1), 2000 + TwoDigits(number, 1) }

RealDate(y) ==
  LET m == TwoDigits(number, 3)
      d == TwoDigits(number, 5)
  IN  m >= 1 /\ m <= 12 /\ d >= 1 /\ d <= DaysInMonth(y, m)

RealYears == { y \in Expansions : RealDate(y) }

Midnight(y) ==
  [day |-> DaysFromCivil(y, TwoDigits(number, 3), TwoDigits(number, 5)), ms |-> 0]

NewYear(y) == [day |-> DaysFromCivil(y, 1, 1), ms |-> 0]

\* The clock reading of the call plus one day.
Cutoff == [day |-> at.day + 1, ms |-> at.ms]

Later(a, b) == a.day > b.day \/ (a.day = b.day /\ a.ms > b.ms)

\* The 9-digit base number as an integer, and 2 * 10^9 plus it.
BaseValue == ParseInt(SubSeq(number, 1, 9))
ExpectedBasis(y) ==
  IF y < 2000 THEN BaseValue ELSE Num(2000 + BaseValue.hi, BaseValue.lo)

CheckValue == TwoDigits(number, 10)

----------------------------------------------------------------------------
(* Properties *)

\* C1 as stated: every cleaned form of a length other than 11 is refused
\* with InvalidLength, whatever its characters.
C1_EveryOtherLengthIsInvalidLength ==
  (op = "validate" /\ ~cleanFailed /\ Len(number) # 11)
    => ret = Failure("InvalidLength")

\* C1 amended: a cleaned form of a length other than 11 is refused with
\* InvalidLength when it is all digits with a positive value, and with
\* InvalidFormat when it holds a non-digit or is all zeros.
C1_OtherLength ==
  (op = "validate" /\ ~cleanFailed /\ Len(number) # 11)
    => ret = IF IsDigits(number) /\ Positive(number)
             THEN Failure("InvalidLength")
             ELSE Failure("InvalidFormat")

C1_Witness ==
  /\ op = "validate" /\ ~cleanFailed
  /\ IsDigits(number) /\ Len(number) = 12
  /\ ret = Failure("InvalidLength")

\* C2 as stated: a calendar-valid expansion at the instant now + 1 day, or
\* later, is future: it gives no basis, and when every calendar-valid
\* expansion is future the number is refused with InvalidFormat.
C2_CutoffInstantIsFuture ==
  (op = "validate" /\ ElevenDigitNumber /\ ~monthBlank)
    => /\ \A y \in RealYears :
            ~Later(Cutoff, Midnight(y)) => ExpectedBasis(y) \notin Range(csb)
       /\ (\A y \in RealYears : ~Later(Cutoff, Midnight(y)))
            => ret = Failure("InvalidFormat")

\* C2 amended: a calendar-valid expansion strictly later than now + 1 day is
\* future (no basis; InvalidFormat when every one is future), and one at
\* exactly now + 1 day is a valid past date whose basis is a candidate.
C2_FutureExpansion ==
  (op = "validate" /\ ElevenDigitNumber /\ ~monthBlank)
    => /\ \A y \in RealYears :
            Later(Midnight(y), Cutoff) => ExpectedBasis(y) \notin Range(csb)
       /\ (\A y \in RealYears : Later(Midnight(y), Cutoff))
            => ret = Failure("InvalidFormat")
       /\ \A y \in RealYears :
            Midnight(y) = Cutoff => ExpectedBasis(y) \in Range(csb)

C2_Witness ==
  /\ op = "validate" /\ ElevenDigitNumber /\ ~monthBlank
  /\ RealYears # {}
  /\ \A y \in RealYears : Later(Midnight(y), Cutoff)
  /\ ret = Failure("InvalidFormat")

\* C3: an 11-digit positive number that passes the structural check is valid
\* exactly when some candidate basis b has (b mod 97) + checksum = 97, and
\* is refused with InvalidChecksum otherwise.
C3_ChecksumDecides ==
  (op = "validate" /\ ElevenDigitNumber /\ Positive(number)
     /\ validStructure(number, at))
    => LET match == \E b \in Range(csb) : NumMod(b, 97) + CheckValue = 97
       IN  ret = IF match THEN Success(number) ELSE Failure("InvalidChecksum")

C3_Witness ==
  /\ op = "validate" /\ ElevenDigitNumber
  /\ ret = Success(number)
  /\ Len(csb) = 2
  /\ \E b \in Range(csb) : NumMod(b, 97) + CheckValue # 97

\* C4: an 11-digit number with mm # 00 for which neither 19yy-mm-dd nor
\* 20yy-mm-dd is a calendar date is refused with InvalidFormat, whatever
\* the check digits and the clock.
C4_ImpossibleDate ==
  (op = "validate" /\ ElevenDigitNumber /\ ~monthBlank /\ RealYears = {})
    => ret = Failure("InvalidFormat")

C4_Witness ==
  /\ op = "validate" /\ ElevenDigitNumber /\ ~monthBlank /\ RealYears = {}
  /\ TwoDigits(number, 3) = 2 /\ TwoDigits(number, 5) = 30
  /\ NumMod(BaseValue, 97) + CheckValue = 97
  /\ ret = Failure("InvalidFormat")

\* C5: when cleaning succeeds validate returns a result and throws nothing;
\* the checks run in the order digits-and-positive, length, structure,
\* checksum, the first that fails gives the error, none is run after it.
C5_FirstFailingCheck ==
  (op = "validate" /\ ~cleanFailed)
    => /\ ret.kind = "result"
       /\ IF ~(IsDigits(number) /\ Positive(number))
          THEN ret = Failure("InvalidFormat") /\ checked = <<"digits">>
          ELSE IF Len(number) # 11
          THEN ret = Failure("InvalidLength") /\ checked = <<"digits", "length">>
          ELSE IF ~validStructure(number, at)
          THEN /\ ret = Failure("InvalidFormat")
               /\ checked = <<"digits", "length", "structure">>
          ELSE /\ checked = <<"digits", "length", "structure", "checksum">>
               /\ \/ ret = Failure("InvalidChecksum")
                  \/ ret = Success(number)

C5_Witness ==
  /\ op = "validate" /\ ~cleanFailed
  /\ ~IsDigits(number) /\ Len(number) # 11 /\ Len(number) > 0
  /\ ret = Failure("InvalidFormat")
  /\ checked = <<"digits">>

\* C6: when validate(x) is valid, validate(compact(x)) is valid too, its
\* compact field is compact(x), 11 digits of positive value, and the result
\* has isIndividual = true and isCompany = false.
C6_RoundTrip ==
  (op = "validate" /\ ret.kind = "result" /\ ret.isValid)
    => LET c == compact(input)
           again == validate(c.value, at)
       IN  /\ c.kind = "string"
           /\ again.kind = "result" /\ again.isValid
           /\ again.compact = c.value
           /\ ret.compact = c.value
           /\ Len(c.value) = 11
           /\ \A i \in 1..11 : c.value[i] \in Digits
           /\ Positive(c.value)
           /\ ret.isIndividual /\ ~ret.isCompany
           /\ again.isIndividual /\ ~again.isCompany

C6_Witness ==
  /\ op = "validate" /\ ret.kind = "result" /\ ret.isValid
  /\ input # ret.compact

\* C7: on a cleaning error compact throws it and returns nothing, format
\* returns the value the utility produced, and validate lets the error
\* through; when cleaning succeeds compact and format return the same value.
C7_CompactFormatAsymmetry ==
  /\ op = "compact" =>
       ret = IF cleanFailed THEN Throw("CleaningError") ELSE Str(number)
  /\ op = "format" => ret = Str(number)
  /\ (op = "validate" /\ cleanFailed) => ret = Throw("CleaningError")
  /\ ~cleanFailed => compact(input) = format(input)

C7_Witness ==
  /\ op = "format" /\ cleanFailed
  /\ ret.kind = "string" /\ ret.value # <<>>

\* C8: with mm # 00 the candidate set holds exactly one basis for each year
\* of 19yy, 20yy whose date is a calendar date not after now + 1 day: the
\* base number for a year below 2000 and 2 * 10^9 plus it otherwise.  For
\* 000229 only the 2-prefixed basis can be a candidate.
C8_StandardBases ==
  (op = "validate" /\ ElevenDigitNumber /\ ~monthBlank)
    => LET years == { y \in RealYears : ~Later(Midnight(y), Cutoff) }
       IN  /\ Range(csb) = { ExpectedBasis(y) : y \in years }
           /\ Len(csb) = Cardinality(years)
           /\ SubSeq(number, 1, 6) = <<"0", "0", "0", "2", "2", "9">>
                => Range(csb) \subseteq { ExpectedBasis(2000) }

C8_Witness ==
  /\ op = "validate" /\ ElevenDigitNumber /\ ~monthBlank
  /\ Len(csb) = 2
  /\ csb[1] = BaseValue
  /\ csb[2] = Num(2000 + BaseValue.hi, BaseValue.lo)

\* C9: with mm = 00 an 11-digit positive number passes the structural check
\* for every yy and dd, and the candidate set holds one basis for each year
\* of 19yy, 20yy that has begun by now + 1 day, by the same prefix rule,
\* with no calendar check of mm and dd.
C9_UnknownDob ==
  (op = "validate" /\ ElevenDigitNumber /\ Positive(number) /\ monthBlank)
    => LET years == { y \in Expansions : ~Later(NewYear(y), Cutoff) }
       IN  /\ checked = <<"digits", "length", "structure", "checksum">>
           /\ ret # Failure("InvalidFormat")
           /\ Range(csb) = { ExpectedBasis(y) : y \in years }
           /\ Len(csb) = Cardinality(years)

C9_Witness ==
  /\ op = "validate" /\ ElevenDigitNumber /\ monthBlank
  /\ SubSeq(number, 5, 6) = <<"0", "0">>
  /\ ret = Success(number)
  /\ Len(csb) = 2

\* C10: as the clock advances the candidate set of an input only grows and
\* a number found valid stays valid, with the same compact value.
C10_MonotoneInClock ==
  [][ (op = "validate" /\ op' = "validate")
        => /\ input' = input
           /\ InstantLeq(at, at')
           /\ Range(csb) \subseteq Range(csb')
           /\ (ret.kind = "result" /\ ret.isValid) => ret' = ret ]_vars

C10_Witness ==
  /\ op = "validate" /\ ret.kind = "result" /\ ret.isValid
  /\ Later(now, at)
  /\ Len(getChecksumBases(number, now)) > Len(csb)

====
